---------------------------- MODULE Spec2Model ----------------------------
(* State-machine model of the e-ink display runner of padd-eink          *)
(* (src/src/padd_eink/eink_display.py): the module globals, the three    *)
(* GPIO button handlers, refresh_data and the control loop of            *)
(* run_eink_display.  The control loop runs on the main thread and the   *)
(* button handlers run on gpiozero's callback threads, so the loop is    *)
(* modelled statement by statement (pc), each blocking call (the fetch,  *)
(* epd.init and epd.Clear, epd.display, the client creator, the logging  *)
(* call of a handler) ends in a step of its own, and a step of a handler *)
(* may run between any two steps of the loop.                            *)
EXTENDS Integers, Sequences, FiniteSets

(* ---------------------------------------------------------------------- *)
(* Program constants                                                      *)
(* ---------------------------------------------------------------------- *)
KEY2_PIN == 6
KEY3_PIN == 13
KEY4_PIN == 19
\* the pins of the three lambdas bound to handle_short_press
ScreenKeys == {KEY2_PIN, KEY3_PIN, KEY4_PIN}
\* num_screens = len(screens)
num_screens == 3
\* rotate_interval (SCREEN_AUTO_ROTATE_INTERVAL_SECONDS)
rotate_interval == 20
\* the literal 120 of refresh_data (INFO_REFRESH_INTERVAL_SECONDS)
RefreshTTL == 120
\* range(3) of the initial connection loop
BootAttempts == 3
\* time.sleep(5) between two initial connection attempts
BootRetrySleep == 5

(* ---------------------------------------------------------------------- *)
(* Bounds of the model                                                    *)
(* ---------------------------------------------------------------------- *)
\* time.time() when run_eink_display starts (seconds; stands for the epoch
\* clock, far larger than RefreshTTL)
StartTime == 1000
\* the clock is not advanced by the loop's sleep beyond StartTime + MaxElapsed
MaxElapsed == 125
\* seconds that may pass during one time.sleep of the control loop: none, the
\* rotate interval exactly, and one second more than half the refresh TTL
\* (20 + 20 + 20 = 60, 6 * 20 = 120, 3 * 20 + 61 = 121)
TimeSteps == {0, rotate_interval, RefreshTTL \div 2 + 1}

\* padd_data = {}
EmptyData == "empty"
\* payloads pihole.get_padd_summary can return: the model tells a payload
\* from the empty dict, not one payload from another
Snapshots == {"snapA"}
\* outcomes of one call of pihole.get_padd_summary
FetchOutcomes == Snapshots \cup {"raise"}

VARIABLES
    padd_data,                  \* global padd_data
    last_data_refresh_time,     \* global last_data_refresh_time
    current_screen_index,       \* global current_screen_index
    force_redraw,               \* global force_redraw (the dirty flag)
    qrcode_mode_active,         \* global qrcode_mode_active
    connection_failed_at_boot,  \* global connection_failed_at_boot
    pihole,                     \* global pihole: "client" or "none"
    last_screen_rotate_time,    \* local of run_eink_display
    now,                        \* time.time()
    pc,                         \* position of the main thread in run_eink_display
    boot_i,                     \* i of "for i in range(3)"
    loaded_index,               \* current_screen_index as loaded by the rotation
                                \* (0 while no rotation is under way)
    image,                      \* local image of the loop: what was drawn into it
    displayed,                  \* what the panel shows (last epd.display / Clear)
    connecting,                 \* a handle_refresh_press callback is inside
                                \* pihole_client_creator
    buttons_bound,              \* the Button objects exist, their callbacks set
    short_pending,              \* a handle_short_press callback is past its
                                \* guard and has not stored yet
    refresh_pending,            \* a handle_refresh_press callback is past its
                                \* guard and has not stored yet
    call,                       \* a call of a function of utils.py or of a
                                \* Versions renderer: its arguments and result
    tui                         \* the terminal UI (PADD_TUI): its workers and
                                \* the content of its three widgets

\* the state of run_eink_display and of the button handlers
eink_vars == <<padd_data, last_data_refresh_time, current_screen_index,
               force_redraw, qrcode_mode_active, connection_failed_at_boot,
               pihole, last_screen_rotate_time, now, pc, boot_i, loaded_index,
               image, displayed, connecting, buttons_bound,
               short_pending, refresh_pending>>

vars == <<eink_vars, call, tui>>

\* no function call is under examination
NoCall == [fn |-> "none"]

\* the terminal UI is not running (e-ink mode)
NoTui == [mounted |-> FALSE]

\* the globals the button handlers and the loop share
screen_state == <<current_screen_index, qrcode_mode_active,
                  connection_failed_at_boot, force_redraw>>

\* draw_splash_screen
Splash == [kind |-> "splash", index |-> 0, data |-> EmptyData]
\* draw_connection_failed_screen
FailedImage == [kind |-> "failed", index |-> 0, data |-> EmptyData]
\* draw_qrcode_screen
QrImage == [kind |-> "qr", index |-> 0, data |-> EmptyData]
\* the panel after epd.Clear()
Cleared == [kind |-> "cleared", index |-> 0, data |-> EmptyData]

Images == [kind : {"splash", "failed", "qr", "screen", "cleared"},
           index : Int, data : Snapshots \cup {EmptyData}]

TypeOK ==
    /\ padd_data \in Snapshots \cup {EmptyData}
    /\ last_data_refresh_time \in Nat
    /\ current_screen_index \in Int
    /\ force_redraw \in BOOLEAN
    /\ qrcode_mode_active \in BOOLEAN
    /\ connection_failed_at_boot \in BOOLEAN
    /\ pihole \in {"client", "none"}
    /\ last_screen_rotate_time \in Nat
    /\ now \in Nat
    /\ pc \in {"boot", "boot_fetch", "boot_check", "boot_sleep",
               "boot_clear", "boot_bind", "boot_stamp", "check_rotate",
               "rotate_store", "rotate_stamp", "check_redraw", "render",
               "fetch", "draw", "display", "ack", "sleep", "finally",
               "stopped"}
    /\ boot_i \in 0..BootAttempts
    /\ loaded_index \in Int
    /\ image \in Images
    /\ displayed \in Images
    /\ connecting \in BOOLEAN
    /\ buttons_bound \in BOOLEAN
    /\ short_pending \in BOOLEAN
    /\ refresh_pending \in BOOLEAN
    /\ call = NoCall
    /\ tui = NoTui

(* ---------------------------------------------------------------------- *)
(* Initial state: the module globals, the splash screen on the panel      *)
(* ---------------------------------------------------------------------- *)
InitGlobals ==
    /\ padd_data = EmptyData
    /\ last_data_refresh_time = 0
    /\ current_screen_index = 0
    /\ force_redraw = TRUE
    /\ qrcode_mode_active = FALSE
    /\ connection_failed_at_boot = FALSE
    /\ pihole \in {"client", "none"}
    /\ last_screen_rotate_time = 0
    /\ now = StartTime
    /\ pc = "boot"
    /\ boot_i = 0
    /\ loaded_index = 0
    /\ image = Splash
    /\ displayed = Splash
    /\ connecting = FALSE
    /\ buttons_bound = FALSE
    /\ short_pending = FALSE
    /\ refresh_pending = FALSE

Init ==
    /\ InitGlobals
    /\ call = NoCall
    /\ tui = NoTui

(* ---------------------------------------------------------------------- *)
(* refresh_data                                                           *)
(* ---------------------------------------------------------------------- *)
\* the staleness test with ">=" for ">"
NeedsRefresh_at_ttl ==
    \/ now - last_data_refresh_time >= RefreshTTL
    \/ padd_data = EmptyData

\* current_time - last_data_refresh_time > 120 or not padd_data
NeedsRefresh ==
    \/ now - last_data_refresh_time > RefreshTTL
    \/ padd_data = EmptyData

\* a call of get_padd_summary on the None client raises (AttributeError)
PossibleOutcome(outcome) ==
    pihole = "none" => outcome = "raise"

\* the time of a failed fetch stamped too
StoreFetched_stamp_on_failure(outcome) ==
    /\ last_data_refresh_time' = now
    /\ padd_data' = IF outcome # "raise" THEN outcome ELSE EmptyData

\* the end of the "try" of refresh_data: get_padd_summary has returned or
\* raised.  The time stored is current_time, read before the call; the clock
\* of the model stands still during the call, so it is now.
StoreFetched(outcome) ==
    IF outcome # "raise"
    THEN /\ padd_data' = outcome
         /\ last_data_refresh_time' = now
    ELSE /\ padd_data' = EmptyData
         /\ UNCHANGED last_data_refresh_time

\* refresh_data is entered: current_time = time.time() and the staleness
\* test.  When it holds pihole.get_padd_summary is called (the main thread is
\* then inside the call, at fetch_pc); otherwise refresh_data returns at once
\* (return_pc).
refresh_data(fetch_pc, return_pc) ==
    pc' = IF NeedsRefresh THEN fetch_pc ELSE return_pc

\* an overlay (connection failed or QR code) takes the place of the screens
OverlayActive == qrcode_mode_active \/ connection_failed_at_boot

(* ---------------------------------------------------------------------- *)
(* Button handlers (gpiozero callback threads)                            *)
(* ---------------------------------------------------------------------- *)
\* the callbacks are set after the initial connection attempts and stay set
\* while the "finally" of run_eink_display runs
ButtonsBound == buttons_bound

KeyIndex(button_pin) ==
    IF button_pin = KEY2_PIN THEN 0
    ELSE IF button_pin = KEY3_PIN THEN 1
    ELSE IF button_pin = KEY4_PIN THEN 2
    ELSE current_screen_index

\* handle_short_press without its "if qrcode_mode_active: return"
handle_short_press_unguarded(button_pin) ==
    /\ ButtonsBound
    /\ ~short_pending
    /\ short_pending' = TRUE
    /\ UNCHANGED <<call, tui, padd_data, last_data_refresh_time,
                   current_screen_index, force_redraw, qrcode_mode_active,
                   connection_failed_at_boot, pihole, last_screen_rotate_time,
                   now, pc, boot_i, loaded_index, image, displayed,
                   connecting, buttons_bound, refresh_pending>>

\* handle_short_press up to its logger.info: the test of qrcode_mode_active,
\* which ends the callback when the flag is set.  One callback of the screen
\* keys is under way at a time.
handle_short_press(button_pin) ==
    /\ ButtonsBound
    /\ ~short_pending
    /\ short_pending' = ~qrcode_mode_active
    /\ UNCHANGED <<call, tui, padd_data, last_data_refresh_time,
                   current_screen_index, force_redraw, qrcode_mode_active,
                   connection_failed_at_boot, pihole, last_screen_rotate_time,
                   now, pc, boot_i, loaded_index, image, displayed,
                   connecting, buttons_bound, refresh_pending>>

\* the rest of handle_short_press, once logger.info has returned: the screen
\* of the key and the dirty flag are stored, whatever the flags are by then.
\* button_pin is the argument of the callback; nothing reads it before these
\* stores, so it is drawn here.
handle_short_press_store(button_pin) ==
    /\ short_pending
    /\ current_screen_index' = KeyIndex(button_pin)
    /\ force_redraw' = TRUE
    /\ short_pending' = FALSE
    /\ UNCHANGED <<call, tui, padd_data, last_data_refresh_time,
                   qrcode_mode_active, connection_failed_at_boot, pihole,
                   last_screen_rotate_time, now, pc, boot_i, loaded_index,
                   image, displayed, connecting, buttons_bound,
                   refresh_pending>>

\* handle_refresh_press up to its logger.info: the test of
\* qrcode_mode_active, which ends the callback when the flag is set.  One
\* callback of the refresh button is under way at a time.
handle_refresh_press ==
    /\ ButtonsBound
    /\ ~refresh_pending
    /\ ~connecting
    /\ refresh_pending' = ~qrcode_mode_active
    /\ UNCHANGED <<call, tui, padd_data, last_data_refresh_time,
                   current_screen_index, force_redraw, qrcode_mode_active,
                   connection_failed_at_boot, pihole, last_screen_rotate_time,
                   now, pc, boot_i, loaded_index, image, displayed,
                   connecting, buttons_bound, short_pending>>

\* handle_refresh_press from the return of logger.info up to the call of
\* pihole_client_creator: the two assignments and the test of
\* connection_failed_at_boot, whatever the QR flag is by then
handle_refresh_press_store ==
    /\ refresh_pending
    /\ refresh_pending' = FALSE
    /\ last_data_refresh_time' = 0
    /\ force_redraw' = TRUE
    /\ connecting' = connection_failed_at_boot
    /\ UNCHANGED <<call, tui, padd_data, current_screen_index,
                   qrcode_mode_active, connection_failed_at_boot, pihole,
                   last_screen_rotate_time, now, pc, boot_i, loaded_index,
                   image, displayed, buttons_bound, short_pending>>

\* what a call of pihole_client_creator can end in: a client, None (as
\* create_pihole_client of __main__.py does when PiHole6Client raises), or an
\* exception of the creator itself
CreatorOutcomes == {"client", "none", "raise"}

\* the rest of handle_refresh_press: pihole_client_creator has ended; pihole
\* is assigned what it returned and the flag cleared for a client; its
\* exception leaves the callback with both as they were
pihole_client_creator(result) ==
    /\ connecting
    /\ connecting' = FALSE
    /\ pihole' = IF result = "raise" THEN pihole ELSE result
    /\ connection_failed_at_boot' =
           IF result = "client" THEN FALSE ELSE connection_failed_at_boot
    /\ UNCHANGED <<call, tui, padd_data, last_data_refresh_time,
                   current_screen_index, force_redraw, qrcode_mode_active,
                   last_screen_rotate_time, now, pc, boot_i, loaded_index,
                   image, displayed, buttons_bound, short_pending,
                   refresh_pending>>

handle_qrcode_toggle ==
    /\ ButtonsBound
    /\ qrcode_mode_active' = ~qrcode_mode_active
    /\ force_redraw' = TRUE
    /\ UNCHANGED <<call, tui, padd_data, last_data_refresh_time,
                   current_screen_index, connection_failed_at_boot, pihole,
                   last_screen_rotate_time, now, pc, boot_i, loaded_index,
                   image, displayed, connecting, buttons_bound, short_pending,
                   refresh_pending>>

(* ---------------------------------------------------------------------- *)
(* run_eink_display: initial connection                                   *)
(* ---------------------------------------------------------------------- *)
\* a pass of "for i in range(3)" begins: refresh_data(pihole) is entered
BootRefresh ==
    /\ pc = "boot"
    /\ boot_i < BootAttempts
    /\ refresh_data("boot_fetch", "boot_check")
    /\ UNCHANGED <<call, tui, padd_data, last_data_refresh_time,
                   current_screen_index, force_redraw, qrcode_mode_active,
                   connection_failed_at_boot, pihole, last_screen_rotate_time,
                   now, boot_i, loaded_index, image, displayed, connecting,
                   buttons_bound, short_pending, refresh_pending>>

\* "if padd_data: break" is not taken: the warning is logged and
\* time.sleep(5) is entered
BootRetry ==
    /\ pc = "boot_check"
    /\ padd_data = EmptyData
    /\ pc' = "boot_sleep"
    /\ UNCHANGED <<call, tui, padd_data, last_data_refresh_time,
                   current_screen_index, force_redraw, qrcode_mode_active,
                   connection_failed_at_boot, pihole, last_screen_rotate_time,
                   now, boot_i, loaded_index, image, displayed, connecting,
                   buttons_bound, short_pending, refresh_pending>>

\* time.sleep(5) has returned: the pass is over and i takes the next value
\* of range(3); boot_i counts the passes that ended so
BootSleep ==
    /\ pc = "boot_sleep"
    /\ now' = now + BootRetrySleep
    /\ boot_i' = boot_i + 1
    /\ pc' = "boot"
    /\ UNCHANGED <<call, tui, padd_data, last_data_refresh_time,
                   current_screen_index, force_redraw, qrcode_mode_active,
                   connection_failed_at_boot, pihole, last_screen_rotate_time,
                   loaded_index, image, displayed, connecting, buttons_bound,
                   short_pending, refresh_pending>>

\* the attempts are given up after the first failure
BootFinish_after_one_failure ==
    /\ \/ pc = "boot_check" /\ padd_data # EmptyData
       \/ pc = "boot" /\ boot_i >= 1
    /\ IF padd_data = EmptyData
       THEN /\ connection_failed_at_boot' = TRUE
            /\ force_redraw' = TRUE
       ELSE UNCHANGED <<connection_failed_at_boot, force_redraw>>
    /\ pc' = "boot_clear"
    /\ UNCHANGED <<call, tui, padd_data, last_data_refresh_time,
                   current_screen_index, qrcode_mode_active, pihole,
                   last_screen_rotate_time, now, boot_i, loaded_index, image,
                   displayed, connecting, buttons_bound, short_pending,
                   refresh_pending>>

\* the "for" is left, by its "break" (data is held) or because range(3) is
\* used up: "if not padd_data:" flags the failure and sets the dirty flag;
\* epd.init() is called next
BootFinish ==
    /\ \/ pc = "boot_check" /\ padd_data # EmptyData
       \/ pc = "boot" /\ boot_i = BootAttempts
    /\ IF padd_data = EmptyData
       THEN /\ connection_failed_at_boot' = TRUE
            /\ force_redraw' = TRUE
       ELSE UNCHANGED <<connection_failed_at_boot, force_redraw>>
    /\ pc' = "boot_clear"
    /\ UNCHANGED <<call, tui, padd_data, last_data_refresh_time,
                   current_screen_index, qrcode_mode_active, pihole,
                   last_screen_rotate_time, now, boot_i, loaded_index, image,
                   displayed, connecting, buttons_bound, short_pending,
                   refresh_pending>>

\* epd.init() and epd.Clear() have returned: the splash screen is wiped
BootClear ==
    /\ pc = "boot_clear"
    /\ displayed' = Cleared
    /\ pc' = "boot_bind"
    /\ UNCHANGED <<call, tui, padd_data, last_data_refresh_time,
                   current_screen_index, force_redraw, qrcode_mode_active,
                   connection_failed_at_boot, pihole, last_screen_rotate_time,
                   now, boot_i, loaded_index, image, connecting,
                   buttons_bound, short_pending, refresh_pending>>

\* the four Button objects are created and their callbacks set: from here on
\* a key is handled; screens and num_screens are set and time.time() of
\* "last_screen_rotate_time = time.time()" is called
BindButtons ==
    /\ pc = "boot_bind"
    /\ buttons_bound' = TRUE
    /\ pc' = "boot_stamp"
    /\ UNCHANGED <<call, tui, padd_data, last_data_refresh_time,
                   current_screen_index, force_redraw, qrcode_mode_active,
                   connection_failed_at_boot, pihole, last_screen_rotate_time,
                   now, boot_i, loaded_index, image, displayed, connecting,
                   short_pending, refresh_pending>>

\* time.time() has returned: the rotation timer is started and the
\* "while True" entered.  A KeyboardInterrupt raised inside the call leaves
\* the callbacks set and the timer unset
BootStamp ==
    /\ pc = "boot_stamp"
    /\ last_screen_rotate_time' = now
    /\ pc' = "check_rotate"
    /\ UNCHANGED <<call, tui, padd_data, last_data_refresh_time,
                   current_screen_index, force_redraw, qrcode_mode_active,
                   connection_failed_at_boot, pihole, now, boot_i,
                   loaded_index, image, displayed, connecting, buttons_bound,
                   short_pending, refresh_pending>>

\* an exception raised by epd.init() or epd.Clear() (an I/O error of the
\* panel) or by Button(...) (a pin that cannot be claimed): it leaves the
\* "try" for the "except Exception" of run_eink_display, which logs it
BootRaises ==
    /\ pc \in {"boot_clear", "boot_bind"}
    /\ pc' = "finally"
    /\ UNCHANGED <<call, tui, padd_data, last_data_refresh_time,
                   current_screen_index, force_redraw, qrcode_mode_active,
                   connection_failed_at_boot, pihole, last_screen_rotate_time,
                   now, boot_i, loaded_index, image, displayed, connecting,
                   buttons_bound, short_pending, refresh_pending>>

(* ---------------------------------------------------------------------- *)
(* run_eink_display: the control loop                                     *)
(* ---------------------------------------------------------------------- *)
\* the rotation condition with ">=" for ">"
RotationDue_at_interval ==
    /\ ~qrcode_mode_active
    /\ ~connection_failed_at_boot
    /\ now - last_screen_rotate_time >= rotate_interval

\* the condition of the rotation "if"
RotationDue ==
    /\ ~qrcode_mode_active
    /\ ~connection_failed_at_boot
    /\ now - last_screen_rotate_time > rotate_interval

\* evaluate the condition; when it holds, load current_screen_index
CheckRotate ==
    /\ pc = "check_rotate"
    /\ IF RotationDue
       THEN /\ loaded_index' = current_screen_index
            /\ pc' = "rotate_store"
       ELSE /\ pc' = "check_redraw"
            /\ UNCHANGED loaded_index
    /\ UNCHANGED <<call, tui, padd_data, last_data_refresh_time,
                   current_screen_index, force_redraw, qrcode_mode_active,
                   connection_failed_at_boot, pihole, last_screen_rotate_time,
                   now, boot_i, image, displayed, connecting, buttons_bound,
                   short_pending, refresh_pending>>

\* the rotation skipping a screen
RotateStore_by_two ==
    /\ pc = "rotate_store"
    /\ current_screen_index' = (loaded_index + 2) % num_screens
    /\ force_redraw' = TRUE
    /\ loaded_index' = 0
    /\ pc' = "rotate_stamp"
    /\ UNCHANGED <<call, tui, padd_data, last_data_refresh_time,
                   qrcode_mode_active, connection_failed_at_boot, pihole,
                   last_screen_rotate_time, now, boot_i, image, displayed,
                   connecting, buttons_bound, short_pending, refresh_pending>>

\* the rotation without "% num_screens"
RotateStore_unwrapped ==
    /\ pc = "rotate_store"
    /\ current_screen_index' = loaded_index + 1
    /\ force_redraw' = TRUE
    /\ loaded_index' = 0
    /\ pc' = "rotate_stamp"
    /\ UNCHANGED <<call, tui, padd_data, last_data_refresh_time,
                   qrcode_mode_active, connection_failed_at_boot, pihole,
                   last_screen_rotate_time, now, boot_i, image, displayed,
                   connecting, buttons_bound, short_pending, refresh_pending>>

\* current_screen_index = (loaded + 1) % num_screens; force_redraw = True;
\* the loaded value is used up and time.time() of the next line is called
RotateStore ==
    /\ pc = "rotate_store"
    /\ current_screen_index' = (loaded_index + 1) % num_screens
    /\ force_redraw' = TRUE
    /\ loaded_index' = 0
    /\ pc' = "rotate_stamp"
    /\ UNCHANGED <<call, tui, padd_data, last_data_refresh_time,
                   qrcode_mode_active, connection_failed_at_boot, pihole,
                   last_screen_rotate_time, now, boot_i, image, displayed,
                   connecting, buttons_bound, short_pending, refresh_pending>>

\* time.time() has returned: last_screen_rotate_time = time.time() ends the
\* rotation.  A KeyboardInterrupt raised inside the call leaves the index
\* and the dirty flag stored and the timer as it was
RotateStamp ==
    /\ pc = "rotate_stamp"
    /\ last_screen_rotate_time' = now
    /\ pc' = "check_redraw"
    /\ UNCHANGED <<call, tui, padd_data, last_data_refresh_time,
                   current_screen_index, force_redraw, qrcode_mode_active,
                   connection_failed_at_boot, pihole, now, boot_i,
                   loaded_index, image, displayed, connecting, buttons_bound,
                   short_pending, refresh_pending>>

\* if force_redraw:
CheckRedraw ==
    /\ pc = "check_redraw"
    /\ pc' = IF force_redraw THEN "render" ELSE "sleep"
    /\ UNCHANGED <<call, tui, padd_data, last_data_refresh_time,
                   current_screen_index, force_redraw, qrcode_mode_active,
                   connection_failed_at_boot, pihole, last_screen_rotate_time,
                   now, boot_i, loaded_index, image, displayed, connecting,
                   buttons_bound, short_pending, refresh_pending>>

\* the head of the render: Image.new, then the tests of
\* connection_failed_at_boot and qrcode_mode_active; an overlay is drawn
\* into the image at once; otherwise refresh_data is entered
RenderStart ==
    /\ pc = "render"
    /\ IF connection_failed_at_boot
       THEN /\ image' = FailedImage
            /\ pc' = "display"
       ELSE IF qrcode_mode_active
       THEN /\ image' = QrImage
            /\ pc' = "display"
       ELSE /\ refresh_data("fetch", "draw")
            /\ UNCHANGED image
    /\ UNCHANGED <<call, tui, padd_data, last_data_refresh_time,
                   current_screen_index, force_redraw, qrcode_mode_active,
                   connection_failed_at_boot, pihole, last_screen_rotate_time,
                   now, boot_i, loaded_index, displayed, connecting,
                   buttons_bound, short_pending, refresh_pending>>

\* pihole.get_padd_summary(full=True) returns or raises inside refresh_data,
\* which stores the outcome and returns: to the "if padd_data:" of the
\* initial connection, or to the draw of the render
get_padd_summary(outcome) ==
    /\ pc \in {"boot_fetch", "fetch"}
    /\ PossibleOutcome(outcome)
    /\ StoreFetched(outcome)
    /\ pc' = IF pc = "fetch" THEN "draw" ELSE "boot_check"
    /\ UNCHANGED <<call, tui, current_screen_index, force_redraw,
                   qrcode_mode_active, connection_failed_at_boot, pihole,
                   last_screen_rotate_time, now, boot_i, loaded_index, image,
                   displayed, connecting, buttons_bound, short_pending,
                   refresh_pending>>

\* screens[current_screen_index](draw, width, height, padd_data, ...): the
\* active screen is drawn into the image from the data held
DrawScreen ==
    /\ pc = "draw"
    /\ image' = [kind |-> "screen", index |-> current_screen_index,
                 data |-> padd_data]
    /\ pc' = "display"
    /\ UNCHANGED <<call, tui, padd_data, last_data_refresh_time,
                   current_screen_index, force_redraw, qrcode_mode_active,
                   connection_failed_at_boot, pihole, last_screen_rotate_time,
                   now, boot_i, loaded_index, displayed, connecting,
                   buttons_bound, short_pending, refresh_pending>>

\* epd.display(epd.getbuffer(image)) returns: the panel shows the image
Display ==
    /\ pc = "display"
    /\ displayed' = image
    /\ pc' = "ack"
    /\ UNCHANGED <<call, tui, padd_data, last_data_refresh_time,
                   current_screen_index, force_redraw, qrcode_mode_active,
                   connection_failed_at_boot, pihole, last_screen_rotate_time,
                   now, boot_i, loaded_index, image, connecting,
                   buttons_bound, short_pending, refresh_pending>>

\* an exception raised inside the render: while an overlay is drawn
\* (pihole_auth.split("//")[1] is an IndexError for an address without
\* "//"; draw_qrcode_screen fails on its URL), while the active screen is
\* drawn (a field of the payload that cannot be formatted) or by epd.display
\* (an I/O error).  Nothing of this render reaches the panel; the exception
\* leaves the "while True" for the "except Exception" of run_eink_display,
\* which logs it.
RenderRaises ==
    /\ pc \in {"render", "draw", "display"}
    /\ pc' = "finally"
    /\ UNCHANGED <<call, tui, padd_data, last_data_refresh_time,
                   current_screen_index, force_redraw, qrcode_mode_active,
                   connection_failed_at_boot, pihole, last_screen_rotate_time,
                   now, boot_i, loaded_index, image, displayed, connecting,
                   buttons_bound, short_pending, refresh_pending>>

\* force_redraw = False, after epd.display returned: the render is over
AckDrawn ==
    /\ pc = "ack"
    /\ force_redraw' = FALSE
    /\ pc' = "sleep"
    /\ UNCHANGED <<call, tui, padd_data, last_data_refresh_time,
                   current_screen_index, qrcode_mode_active,
                   connection_failed_at_boot, pihole, last_screen_rotate_time,
                   now, boot_i, loaded_index, image, displayed, connecting,
                   buttons_bound, short_pending, refresh_pending>>

\* time.sleep(0.1): the wall clock moves on by d seconds
LoopSleep(d) ==
    /\ pc = "sleep"
    /\ now + d <= StartTime + MaxElapsed
    /\ now' = now + d
    /\ pc' = "check_rotate"
    /\ UNCHANGED <<call, tui, padd_data, last_data_refresh_time,
                   current_screen_index, force_redraw, qrcode_mode_active,
                   connection_failed_at_boot, pihole, last_screen_rotate_time,
                   boot_i, loaded_index, image, displayed, connecting,
                   buttons_bound, short_pending, refresh_pending>>

\* SIGINT: KeyboardInterrupt is raised in the main thread, wherever it is
\* inside the "try"; the handler logs it and closes the session of the client
KeyboardInterrupt ==
    /\ pc \notin {"finally", "stopped"}
    /\ pc' = "finally"
    /\ UNCHANGED <<call, tui, padd_data, last_data_refresh_time,
                   current_screen_index, force_redraw, qrcode_mode_active,
                   connection_failed_at_boot, pihole, last_screen_rotate_time,
                   now, boot_i, loaded_index, image, displayed, connecting,
                   buttons_bound, short_pending, refresh_pending>>

\* finally: epd.Clear() has cleared the panel; epd.sleep() and the return
\* follow
Finally ==
    /\ pc = "finally"
    /\ displayed' = Cleared
    /\ pc' = "stopped"
    /\ UNCHANGED <<call, tui, padd_data, last_data_refresh_time,
                   current_screen_index, force_redraw, qrcode_mode_active,
                   connection_failed_at_boot, pihole, last_screen_rotate_time,
                   now, boot_i, loaded_index, image, connecting,
                   buttons_bound, short_pending, refresh_pending>>

\* finally: epd.Clear() raises (an I/O error of the panel): the panel keeps
\* what it showed, epd.sleep() is not called and the exception leaves
\* run_eink_display
FinallyRaises ==
    /\ pc = "finally"
    /\ pc' = "stopped"
    /\ UNCHANGED <<call, tui, padd_data, last_data_refresh_time,
                   current_screen_index, force_redraw, qrcode_mode_active,
                   connection_failed_at_boot, pihole, last_screen_rotate_time,
                   now, boot_i, loaded_index, image, displayed, connecting,
                   buttons_bound, short_pending, refresh_pending>>

(* ---------------------------------------------------------------------- *)
(* Specifications                                                         *)
(* ---------------------------------------------------------------------- *)
\* a step of the main thread
LoopStep ==
    \/ BootRefresh
    \/ BootRetry
    \/ BootSleep
    \/ BootFinish
    \/ BootClear
    \/ BindButtons
    \/ BootStamp
    \/ BootRaises
    \/ CheckRotate
    \/ RotateStore
    \/ RotateStamp
    \/ CheckRedraw
    \/ RenderStart
    \/ \E outcome \in FetchOutcomes : get_padd_summary(outcome)
    \/ DrawScreen
    \/ Display
    \/ RenderRaises
    \/ AckDrawn
    \/ \E d \in TimeSteps : LoopSleep(d)
    \/ Finally
    \/ FinallyRaises

ShortPress == \E button_pin \in ScreenKeys : handle_short_press(button_pin)

ShortPressStore ==
    \E button_pin \in ScreenKeys : handle_short_press_store(button_pin)

\* a step of a button callback
InputStep ==
    \/ ShortPress
    \/ ShortPressStore
    \/ handle_refresh_press
    \/ handle_refresh_press_store
    \/ \E result \in CreatorOutcomes : pihole_client_creator(result)
    \/ handle_qrcode_toggle

\* the threads interleave freely
Next == LoopStep \/ InputStep \/ KeyboardInterrupt

Spec == Init /\ [][Next]_vars

\* no button is pressed and no signal sent
SpecNoInput == Init /\ [][LoopStep]_vars

(* ---------------------------------------------------------------------- *)
(* C1                                                                     *)
(* ---------------------------------------------------------------------- *)
\* C1 as stated: a short press on key 2, 3 or 4 made while any overlay (QR
\* code or connection failed) is active is ignored: its handler ends at its
\* guard and the screen index, the overlay and the dirty flag stay unchanged.
C1_SelectIgnoredUnderAnyOverlay ==
    [][(ShortPress /\ OverlayActive)
         => (~short_pending' /\ UNCHANGED screen_state)]_vars

\* C1 amended: a short press is ignored exactly when its handler finds the QR
\* flag set: a handler goes past its guard only with the flag clear (also on
\* the connection-failed screen), and then key 2, 3, 4 selects screen 0, 1, 2
\* and sets the dirty flag, the overlay flags unchanged, whatever the flags
\* have become when it stores.
C1_SelectIgnoredOnlyUnderQr ==
    [][/\ (short_pending' /\ ~short_pending)
            => /\ ShortPress
               /\ ~qrcode_mode_active
               /\ UNCHANGED screen_state
       /\ (short_pending /\ ~short_pending')
            => /\ ShortPressStore
               /\ \A button_pin \in ScreenKeys :
                    handle_short_press_store(button_pin)
                      => /\ button_pin = 6 => current_screen_index' = 0
                         /\ button_pin = 13 => current_screen_index' = 1
                         /\ button_pin = 19 => current_screen_index' = 2
               /\ force_redraw'
               /\ UNCHANGED <<qrcode_mode_active, connection_failed_at_boot>>
      ]_vars

\* a select has acted while the connection-failed screen was shown
C1_Witness ==
    /\ connection_failed_at_boot
    /\ ~qrcode_mode_active
    /\ displayed.kind = "failed"
    /\ current_screen_index = 2

(* ---------------------------------------------------------------------- *)
(* C2                                                                     *)
(* ---------------------------------------------------------------------- *)
\* C2: the QR toggle preserves the screen index: the toggle itself does not
\* change it, and no step of a select or of a control-loop tick changes it
\* while the QR overlay stays active, so the second toggle returns to the
\* same screen.
C2_ToggleQrPreservesIndex ==
    [][/\ handle_qrcode_toggle => current_screen_index' = current_screen_index
       /\ (qrcode_mode_active /\ qrcode_mode_active')
             => current_screen_index' = current_screen_index
      ]_vars

(* ---------------------------------------------------------------------- *)
(* C3                                                                     *)
(* ---------------------------------------------------------------------- *)
\* C3: entering ConnectionFailed clears any active QR overlay: in every
\* reachable state where the connection-failed overlay is active the QR flag
\* is false (so the exit from ConnectionFailed cannot land in the QR
\* overlay).
C3_FailedClearsQr ==
    connection_failed_at_boot => ~qrcode_mode_active

C5_RotationAdvancesByOne ==
    [][current_screen_index' # current_screen_index
         => /\ RotateStore
            /\ current_screen_index' = (current_screen_index + 1) % 3
            /\ force_redraw'
      ]_vars

\* back on screen 0 after three rotations
C5_Witness ==
    /\ current_screen_index = 0
    /\ ~connection_failed_at_boot
    /\ last_screen_rotate_time >= StartTime + 3 * rotate_interval
    /\ displayed = [kind |-> "screen", index |-> 2, data |-> padd_data]
    /\ force_redraw

(* ---------------------------------------------------------------------- *)
(* C6                                                                     *)
(* ---------------------------------------------------------------------- *)
\* C6: while the QR overlay or the connection-failed overlay is active, no
\* step of a control-loop tick changes the screen index or sets the dirty
\* flag, however much time has elapsed.
C6_NoRotationUnderOverlay ==
    [][(LoopStep /\ OverlayActive)
         => /\ current_screen_index' = current_screen_index
            /\ force_redraw' => force_redraw
      ]_vars

(* ---------------------------------------------------------------------- *)
(* C7                                                                     *)
(* ---------------------------------------------------------------------- *)
\* C7: the screen index is always an integer in [0, 3).
C7_IndexInRange ==
    current_screen_index \in 0..2

\* the rotation is about to wrap around from the last screen
C7_Witness ==
    /\ pc = "rotate_store"
    /\ loaded_index = 2
    /\ current_screen_index = 2

(* ---------------------------------------------------------------------- *)
(* C8                                                                     *)
(* ---------------------------------------------------------------------- *)
\* C8: every step that changes the screen state (index, QR flag,
\* connection-failed flag) leaves the dirty flag set, and the dirty flag is
\* cleared only by the acknowledgement that ends a render, once per render.
C8_DirtyProtocol ==
    [][/\ <<current_screen_index, qrcode_mode_active,
            connection_failed_at_boot>>'
            # <<current_screen_index, qrcode_mode_active,
                connection_failed_at_boot>>
          => force_redraw'
       /\ (force_redraw /\ ~force_redraw') => AckDrawn
       /\ (pc' = "ack" /\ pc # "ack") => Display
       /\ AckDrawn => ~force_redraw'
      ]_vars

(* ---------------------------------------------------------------------- *)
(* C9                                                                     *)
(* ---------------------------------------------------------------------- *)
\* C9: a rotation interleaved with button callbacks ends as some sequential
\* order of the two would: the index it stores is the successor of the
\* index current at the store (callbacks first) or the store leaves the
\* callbacks' index in place (rotation first); a select is never overwritten.
C9_RotationSerialized ==
    [][RotateStore
         => current_screen_index'
              \in {current_screen_index, (current_screen_index + 1) % 3}
      ]_vars

(* ---------------------------------------------------------------------- *)
(* C10                                                                    *)
(* ---------------------------------------------------------------------- *)
\* a step in which refresh_data is entered: it reads the clock and decides
RefreshCall ==
    \/ BootRefresh
    \/ RenderStart /\ ~OverlayActive

\* the main thread is inside pihole.get_padd_summary
InFetch(at) == at \in {"boot_fetch", "fetch"}

\* C10: a refresh_data call invokes the fetch if and only if
\* now - last_fetch_time > 120 or no snapshot is held, and the fetch is
\* invoked by such a call only; a successful fetch stores the result and sets
\* last_fetch_time to now; the call itself, and a call without a fetch, leave
\* the snapshot and the timestamp as they are.
C10_RefetchIffStale ==
    [][/\ (pc \in {"boot", "render"} /\ pc' # pc /\ RefreshCall)
            => /\ InFetch(pc')
                    <=> (now - last_data_refresh_time > 120
                           \/ padd_data = "empty")
               /\ UNCHANGED <<padd_data, last_data_refresh_time>>
       /\ (InFetch(pc') /\ ~InFetch(pc))
            => /\ RefreshCall
               /\ now - last_data_refresh_time > 120 \/ padd_data = "empty"
       /\ \A o \in Snapshots :
            (InFetch(pc) /\ get_padd_summary(o))
               => (padd_data' = o /\ last_data_refresh_time' = now)
       /\ padd_data' # padd_data
            => (InFetch(pc) /\ \E o \in FetchOutcomes : get_padd_summary(o))
       /\ (last_data_refresh_time' # last_data_refresh_time
             /\ last_data_refresh_time' # 0)
            => (InFetch(pc) /\ \E o \in Snapshots : get_padd_summary(o))
      ]_vars

\* the render called refresh_data 121 s after the last fetch, with a snapshot
\* held, and the fetch is under way
C10_Witness ==
    /\ pc = "fetch"
    /\ ~OverlayActive
    /\ padd_data \in Snapshots
    /\ now - last_data_refresh_time = 121

(* ---------------------------------------------------------------------- *)
(* C11                                                                    *)
(* ---------------------------------------------------------------------- *)
\* C11: a failed fetch leaves last_data_refresh_time unchanged, and the
\* refresh_data call that follows a failed fetch invokes the fetch again,
\* however little time has passed: the failure leaves no snapshot held, none
\* appears until a fetch returns one, and a call entered with no snapshot
\* held fetches.
C11_FailureKeepsTimestampAndRetries ==
    [][/\ (InFetch(pc) /\ get_padd_summary("raise"))
            => /\ UNCHANGED last_data_refresh_time
               /\ padd_data' = "empty"
       /\ (padd_data = "empty" /\ padd_data' # "empty")
            => \E o \in Snapshots : get_padd_summary(o)
       /\ (pc \in {"boot", "render"} /\ padd_data = "empty" /\ RefreshCall)
            => InFetch(pc')
      ]_vars

\* the fetch is under way again in the render that follows a failed fetch of
\* the loop; the timestamp is still the one of the successful boot attempt
C11_Witness ==
    /\ pc = "fetch"
    /\ padd_data = EmptyData
    /\ displayed = [kind |-> "screen", index |-> 1, data |-> EmptyData]
    /\ last_data_refresh_time = StartTime

(* ---------------------------------------------------------------------- *)
(* C12                                                                    *)
(* ---------------------------------------------------------------------- *)
\* C12: when the fetch raises, the value stored is an error variant that
\* carries the message, distinct from every successful snapshot and from the
\* empty "no snapshot yet" value.
C12_FailureStoresErrorVariant ==
    [][(InFetch(pc) /\ get_padd_summary("raise"))
         => (padd_data' \notin Snapshots /\ padd_data' # "empty")]_vars

(* ---------------------------------------------------------------------- *)
(* C13                                                                    *)
(* ---------------------------------------------------------------------- *)
\* C13: a refresh press invalidates the cache: whenever the refresh button
\* can be pressed, the press goes on to set last_data_refresh_time to zero
\* and to set the dirty flag, and the dirty flag makes the refresh happen:
\* with the cache invalidated and no overlay shown, the control loop is never
\* between two renders with the dirty flag clear.
C13_PressAlwaysInvalidates ==
    /\ (ButtonsBound /\ ~refresh_pending /\ ~connecting)
         => ~ENABLED (handle_refresh_press /\ ~refresh_pending')
    /\ ~ENABLED (handle_refresh_press_store
                   /\ ~(last_data_refresh_time' = 0 /\ force_redraw'))
    /\ (/\ last_data_refresh_time = 0
        /\ ~OverlayActive
        /\ pc \in {"sleep", "check_rotate", "rotate_store", "rotate_stamp",
                   "check_redraw"})
         => force_redraw

(* ---------------------------------------------------------------------- *)
(* C14                                                                    *)
(* ---------------------------------------------------------------------- *)
\* C14: a fetch failure during the control loop is shown on the dedicated
\* failure screen and is never fatal: the render in which the fetch failed
\* draws the failure screen, and while the failure of the connection is
\* being shown the loop is left only by the exit signal.
C14_LoopFailureShowsFailureScreen ==
    [][/\ (DrawScreen /\ padd_data = "empty") => image'.kind = "failed"
       /\ (pc = "render" /\ connection_failed_at_boot /\ pc' = "finally")
            => KeyboardInterrupt
      ]_vars

(* ---------------------------------------------------------------------- *)
(* C15                                                                    *)
(* ---------------------------------------------------------------------- *)
\* C15: an exception raised inside the render path does not terminate the
\* control loop: after it the loop is still inside its "while True".
C15_LoopSurvivesRenderException ==
    [][RenderRaises => pc' \notin {"finally", "stopped"}]_vars

(* ---------------------------------------------------------------------- *)
(* utils.compare_versions                                                 *)
(* A str is the sequence of the code points of its characters, an        *)
(* argument is a str or None, and an int is held as its sign and its     *)
(* decimal digits: no number is too large for the model.                 *)
(* ---------------------------------------------------------------------- *)
Str(chars) == [type |-> "str", chars |-> chars]

None == [type |-> "NoneType", chars |-> <<>>]

\* ord(c) of the characters the literals of the model are written with
ord(c) ==
    CASE c = " " -> 32 [] c = "+" -> 43 [] c = "-" -> 45 [] c = "." -> 46
      [] c = "/" -> 47 [] c = "0" -> 48 [] c = "1" -> 49 [] c = "2" -> 50
      [] c = "3" -> 51 [] c = "4" -> 52 [] c = "5" -> 53 [] c = "6" -> 54
      [] c = "7" -> 55 [] c = "8" -> 56 [] c = "9" -> 57 [] c = "A" -> 65
      [] c = "N" -> 78 [] c = "V" -> 86 [] c = "X" -> 88 [] c = "_" -> 95
      [] c = "o" -> 111 [] c = "p" -> 112 [] c = "s" -> 115
      [] c = "t" -> 116 [] c = "v" -> 118

\* the code points of a literal given character by character
Chars(literal) == [i \in 1..Len(literal) |-> ord(literal[i])]

\* the str of a literal
Text(literal) == Str(Chars(literal))

\* "vV", the argument of lstrip
vV == {ord("v"), ord("V")}

\* ".", the argument of split
Dot == ord(".")

\* str.lstrip(chars): every leading character that is in chars is removed
RECURSIVE lstrip(_, _)
lstrip(s, chars) ==
    IF s # <<>> /\ Head(s) \in chars THEN lstrip(Tail(s), chars) ELSE s

\* str.split(sep) for a one-character sep: the pieces between the separators,
\* empty pieces included
RECURSIVE split(_, _)
split(s, sep) ==
    IF \A i \in 1..Len(s) : s[i] # sep
    THEN <<s>>
    ELSE LET k == CHOOSE i \in 1..Len(s) :
                      s[i] = sep /\ \A j \in 1..(i - 1) : s[j] # sep
         IN <<SubSeq(s, 1, k - 1)>> \o split(SubSeq(s, k + 1, Len(s)), sep)

\* str.rstrip(chars): every trailing character that is in chars is removed
RECURSIVE rstrip(_, _)
rstrip(s, chars) ==
    IF s # <<>> /\ s[Len(s)] \in chars
    THEN rstrip(SubSeq(s, 1, Len(s) - 1), chars)
    ELSE s

\* the characters int() skips before and after the number: "\t", "\n",
\* "\x0b", "\x0c", "\r", " " and, above ASCII, the characters of
\* str.isspace ("\x85", "\xa0", "\u1680", "\u2000" to "\u200a", "\u2028",
\* "\u2029", "\u202f", "\u205f", "\u3000"); "\x1c" to "\x1f" are not skipped
Whitespace ==
    {9, 10, 11, 12, 13, 32, 133, 160, 5760, 8192, 8193, 8194, 8195, 8196,
     8197, 8198, 8199, 8200, 8201, 8202, 8232, 8233, 8239, 8287, 12288}

\* the code point of the digit zero of each run of ten decimal digits int()
\* reads (ASCII, Arabic-Indic, ... fullwidth, ...: the characters of Unicode
\* category Nd in the unicodedata of the interpreter, version 14.0)
DecimalZeros ==
    {48, 1632, 1776, 1984, 2406, 2534, 2662, 2790, 2918, 3046, 3174, 3302,
     3430, 3558, 3664, 3792, 3872, 4160, 4240, 6112, 6160, 6470, 6608, 6784,
     6800, 6992, 7088, 7232, 7248, 42528, 43216, 43264, 43472, 43504, 43600,
     44016, 65296, 66720, 68912, 69734, 69872, 69942, 70096, 70384, 70736,
     70864, 71248, 71360, 71472, 71904, 72016, 72784, 73040, 73120, 92768,
     92864, 93008, 120782, 120792, 120802, 120812, 120822, 123200, 123632,
     125264, 130032}

\* sys.get_int_max_str_digits(): int() raises ValueError for a str with more
\* decimal digits than this
int_max_str_digits == 4300

\* c is a decimal digit for int()
IsDecimal(c) ==
    \/ c \in 48..57
    \/ c > 127 /\ \E zero \in DecimalZeros : c \in zero..(zero + 9)

\* the value, 0 to 9, of a decimal digit
DecimalOf(c) ==
    IF c \in 48..57 THEN c - 48
    ELSE c - (CHOOSE zero \in DecimalZeros : c \in zero..(zero + 9))

\* part as int() reads it: without the whitespace around it
Stripped(part) == rstrip(lstrip(part, Whitespace), Whitespace)

\* the stripped part without its sign
Unsigned(part) ==
    IF /\ Stripped(part) # <<>>
       /\ Head(Stripped(part)) \in {ord("+"), ord("-")}
    THEN Tail(Stripped(part))
    ELSE Stripped(part)

\* the decimal digits of the part, its underscores left out
DigitsOf(part) == SelectSeq(Unsigned(part), IsDecimal)

\* int(part) raises ValueError unless part is, inside optional whitespace,
\* an optional sign and one or more decimal digits, where single
\* underscores may stand between two digits, and has no more than
\* int_max_str_digits digits (leading zeros are counted; the sign, the
\* underscores and the whitespace are not)
IntRaises(part) ==
    LET unsigned == Unsigned(part)
        underscore == ord("_")
    IN \/ unsigned = <<>>
       \/ \E i \in 1..Len(unsigned) :
             ~IsDecimal(unsigned[i]) /\ unsigned[i] # underscore
       \/ \E i \in 1..Len(unsigned) :
             /\ unsigned[i] = underscore
             /\ \/ i = 1
                \/ i = Len(unsigned)
                \/ unsigned[i + 1] = underscore
       \/ Len(DigitsOf(part)) > int_max_str_digits

\* a sequence of digit values without its leading zeros
Canonical(values) ==
    IF \A i \in 1..Len(values) : values[i] = 0
    THEN <<>>
    ELSE SubSeq(values,
                CHOOSE i \in 1..Len(values) :
                    values[i] # 0 /\ \A j \in 1..(i - 1) : values[j] = 0,
                Len(values))

\* int(part), for a part int accepts: the sign and the digit values, most
\* significant first, without leading zeros (none for 0, and -0 is 0)
int(part) ==
    LET found == DigitsOf(part)
        digits == Canonical([i \in 1..Len(found) |-> DecimalOf(found[i])])
    IN [negative |-> Head(Stripped(part)) = ord("-") /\ digits # <<>>,
        digits |-> digits]

\* a < b for two natural numbers given by their digits
MagnitudeLess(a, b) ==
    \/ Len(a) < Len(b)
    \/ /\ Len(a) = Len(b)
       /\ \E i \in 1..Len(a) :
             a[i] < b[i] /\ \A j \in 1..(i - 1) : a[j] = b[j]

\* x < y for two ints
Less(x, y) ==
    IF x.negative # y.negative THEN x.negative
    ELSE IF x.negative THEN MagnitudeLess(y.digits, x.digits)
    ELSE MagnitudeLess(x.digits, y.digits)

\* version.lstrip("vV").split(".")
Pieces(version) == split(lstrip(version.chars, vV), Dot)

\* [int(part) for part in version.lstrip("vV").split(".")]
Parts(version) ==
    LET pieces == Pieces(version)
    IN [i \in 1..Len(pieces) |-> int(pieces[i])]

\* the try block raises: AttributeError (None has no lstrip) or ValueError
ParseRaises(version) ==
    \/ version.type # "str"
    \/ LET pieces == Pieces(version)
       IN \E i \in 1..Len(pieces) : IntRaises(pieces[i])

\* parts.extend([0] * (max_len - len(parts)))
Extended(parts, max_len) ==
    [i \in 1..max_len |->
        IF i <= Len(parts) THEN parts[i]
        ELSE [negative |-> FALSE, digits |-> <<>>]]

\* the "for i in range(max_len)" over the two extended lists
RECURSIVE CompareFrom(_, _, _)
CompareFrom(v1_parts, v2_parts, i) ==
    IF i > Len(v1_parts) THEN 0
    ELSE IF Less(v2_parts[i], v1_parts[i]) THEN 1
    ELSE IF Less(v1_parts[i], v2_parts[i]) THEN -1
    ELSE CompareFrom(v1_parts, v2_parts, i + 1)

Max(a, b) == IF a >= b THEN a ELSE b

\* ">=" for ">": the first pair already decides
compare_versions_ge(version1, version2) ==
    IF ParseRaises(version1) \/ ParseRaises(version2)
    THEN 0
    ELSE LET max_len == Max(Len(Parts(version1)), Len(Parts(version2)))
         IN IF ~Less(Extended(Parts(version1), max_len)[1],
                     Extended(Parts(version2), max_len)[1])
            THEN 1 ELSE -1

compare_versions(version1, version2) ==
    IF ParseRaises(version1) \/ ParseRaises(version2)
    THEN 0
    ELSE LET max_len == Max(Len(Parts(version1)), Len(Parts(version2)))
         IN CompareFrom(Extended(Parts(version1), max_len),
                        Extended(Parts(version2), max_len), 1)

(* ---------------------------------------------------------------------- *)
(* The arguments compare_versions is applied to                           *)
(* ---------------------------------------------------------------------- *)
\* most components of a generated version string
MaxParts == 2

\* what stands before the first component
Prefixes == {<<>>, Chars(<<"v">>)}

\* the components: numbers of one and two digits, a letter, a negative
\* number, nothing
Components ==
    {Chars(<<"0">>), Chars(<<"1">>), Chars(<<"1", "0">>), Chars(<<"X">>),
     Chars(<<"-", "1">>), <<>>}

\* ".".join(parts)
RECURSIVE Join(_)
Join(parts) ==
    IF Len(parts) = 1 THEN parts[1]
    ELSE parts[1] \o <<Dot>> \o Join(Tail(parts))

ComponentLists == UNION {[1..n -> Components] : n \in 1..MaxParts}

\* "1.2.0", "1.2", "2.0.0", "1.9.9", "vX", "1.0", and strings with the
\* characters int() accepts besides the ASCII digits: " 1", "1 ", "1_0", "9",
\* "+1", "1 .2", "1__0", "_1", "1_", "- 1", " ", "007", "-0", and more than
\* one prefix character: "Vv1.0", "V2", "vV"
ExampleVersions ==
    {Chars(<<"1", ".", "2", ".", "0">>), Chars(<<"1", ".", "2">>),
     Chars(<<"2", ".", "0", ".", "0">>), Chars(<<"1", ".", "9", ".", "9">>),
     Chars(<<"v", "X">>), Chars(<<"1", ".", "0">>),
     Chars(<<" ", "1">>), Chars(<<"1", " ">>), Chars(<<"1", "_", "0">>),
     Chars(<<"9">>), Chars(<<"+", "1">>), Chars(<<"1", " ", ".", "2">>),
     Chars(<<"1", "_", "_", "0">>), Chars(<<"_", "1">>),
     Chars(<<"1", "_">>), Chars(<<"-", " ", "1">>), Chars(<<" ">>),
     Chars(<<"0", "0", "7">>), Chars(<<"-", "0">>),
     Chars(<<"V", "v", "1", ".", "0">>), Chars(<<"V", "2">>),
     Chars(<<"v", "V">>)}

\* strings with characters outside printable ASCII: "1\x0b", "\x0c1\t",
\* "\x851", "1\xa0", "\u2003" + "1.0" + "\u3000", "1\x1c" and "\x1f1" (not
\* skipped), "1\u200b" (no whitespace), "\u0661" and "\u0661.\u0662"
\* (Arabic-Indic 1 and 1.2), "\uff12" (fullwidth 2), "1\u0660" (10),
\* "\u0967_\u0966" (Devanagari 1_0), "\u00b2" (superscript two, no decimal)
UnicodeVersions ==
    {<<49, 11>>, <<12, 49, 9>>, <<133, 49>>, <<49, 160>>,
     <<8195, 49, 46, 48, 12288>>, <<49, 28>>, <<31, 49>>, <<49, 8203>>,
     <<1633>>, <<1633, 46, 1634>>, <<65298>>, <<49, 1632>>,
     <<2407, 95, 2406>>, <<178>>}

\* components at the limit of int(): "1" * 4300 and "0" * 4299 + "1", which
\* int() reads, "1" * 4301 and "0" * 4301, for which it raises
LongVersions ==
    {[i \in 1..int_max_str_digits |-> ord("1")],
     [i \in 1..(int_max_str_digits + 1) |-> ord("1")],
     [i \in 1..int_max_str_digits |->
          IF i < int_max_str_digits THEN ord("0") ELSE ord("1")],
     [i \in 1..(int_max_str_digits + 1) |-> ord("0")]}

\* what a long component is compared with: "0", "1", "2", "v1.0"
LongPartners ==
    {Chars(<<"0">>), Chars(<<"1">>), Chars(<<"2">>),
     Chars(<<"v", "1", ".", "0">>)}

Versions ==
    {Str(prefix \o Join(parts)) : prefix \in Prefixes, parts \in ComponentLists}
    \cup {Str(chars) : chars \in ExampleVersions \cup UnicodeVersions}
    \cup {None}

\* the pairs of arguments: every pair of Versions, and every long component
\* with each of its partners and with each long component, in both orders
VersionPairs ==
    (Versions \X Versions)
    \cup {<<Str(long), Str(other)>> :
              long \in LongVersions, other \in LongPartners \cup LongVersions}
    \cup {<<Str(other), Str(long)>> :
              long \in LongVersions, other \in LongPartners}

InitVersions ==
    /\ InitGlobals
    /\ pihole = "none"
    /\ tui = NoTui
    /\ \E pair \in VersionPairs :
          call = [fn |-> "compare_versions", version1 |-> pair[1],
                  version2 |-> pair[2], returned |-> FALSE, result |-> 0]

\* result = compare_versions(version1, version2)
CallCompareVersions ==
    /\ call.fn = "compare_versions"
    /\ ~call.returned
    /\ call' = [call EXCEPT !.returned = TRUE,
                            !.result = compare_versions(call.version1,
                                                        call.version2)]
    /\ UNCHANGED <<eink_vars, tui>>

NextVersions == CallCompareVersions

SpecVersions == InitVersions /\ [][NextVersions]_vars

\* compare_versions has returned for the two arguments
Compared == call.fn = "compare_versions" /\ call.returned

(* ---------------------------------------------------------------------- *)
(* C16                                                                    *)
(* ---------------------------------------------------------------------- *)
\* C16: compare_versions is antisymmetric: for all arguments a and b, well
\* formed or not, compare_versions(a, b) = -compare_versions(b, a).
C16_Antisymmetric ==
    Compared =>
        call.result = 0 - compare_versions(call.version2, call.version1)

\* a call that returned 1 for arguments with different numbers of components
C16_Witness ==
    /\ Compared
    /\ call.result = 1
    /\ call.version1.type = "str" /\ call.version2.type = "str"
    /\ Len(Pieces(call.version1)) # Len(Pieces(call.version2))

(* ---------------------------------------------------------------------- *)
(* C17                                                                    *)
(* ---------------------------------------------------------------------- *)
\* a version string without its one leading "v" or "V", if it has one
WithoutOneV(chars) ==
    IF chars # <<>> /\ Head(chars) \in vV THEN Tail(chars) ELSE chars

\* an optional "v" or "V", then one or more dot-separated components, each of
\* one or more of the digits "0" to "9"
WellFormed(version) ==
    /\ version.type = "str"
    /\ LET pieces == split(WithoutOneV(version.chars), Dot)
       IN \A i \in 1..Len(pieces) :
             LET piece == pieces[i]
             IN /\ piece # <<>>
                /\ \A k \in 1..Len(piece) : piece[k] \in 48..57

\* the sequence of natural numbers a well-formed version string denotes,
\* each number given by its digits without leading zeros
Numbers(version) ==
    LET pieces == split(WithoutOneV(version.chars), Dot)
    IN [i \in 1..Len(pieces) |->
           LET piece == pieces[i]
           IN Canonical([k \in 1..Len(piece) |-> piece[k] - 48])]

\* the i-th element of a sequence of numbers padded with zeros
At(numbers, i) == IF i <= Len(numbers) THEN numbers[i] ELSE <<>>

\* a is before (sign = -1) or after (sign = 1) b at the first place where the
\* zero-padded sequences differ
DecidedAt(a, b, i, sign) ==
    /\ \A j \in 1..(i - 1) : At(a, j) = At(b, j)
    /\ IF sign = 1 THEN MagnitudeLess(At(b, i), At(a, i))
                   ELSE MagnitudeLess(At(a, i), At(b, i))

\* C17: for well-formed arguments compare_versions is the lexicographic
\* comparison of the two integer sequences, the shorter padded with zeros:
\* the first unequal component from the left decides, trailing zeros do not
\* matter ("1.2.0" against "1.2" is 0, "2.0.0" against "1.9.9" is 1), and one
\* leading "v" or "V" is stripped before the parsing.
C17_LexicographicOnWellFormed ==
    (Compared /\ WellFormed(call.version1) /\ WellFormed(call.version2)) =>
        LET a == Numbers(call.version1)
            b == Numbers(call.version2)
            n == Max(Len(a), Len(b))
        IN /\ call.result \in {-1, 0, 1}
           /\ call.result = 0 <=> \A i \in 1..n : At(a, i) = At(b, i)
           /\ call.result = 1 <=> \E i \in 1..n : DecidedAt(a, b, i, 1)
           /\ call.result = -1 <=> \E i \in 1..n : DecidedAt(a, b, i, -1)
           /\ (/\ call.version1 = Text(<<"1", ".", "2", ".", "0">>)
               /\ call.version2 = Text(<<"1", ".", "2">>))
                  => call.result = 0
           /\ (/\ call.version1 = Text(<<"2", ".", "0", ".", "0">>)
               /\ call.version2 = Text(<<"1", ".", "9", ".", "9">>))
                  => call.result = 1

(* ---------------------------------------------------------------------- *)
(* C18                                                                    *)
(* ---------------------------------------------------------------------- *)
\* not a str, or a str that has, after its leading "v"/"V" characters, a
\* component that is not a non-negative integer (one or more of the digits
\* "0" to "9")
Malformed(version) ==
    \/ version.type # "str"
    \/ LET pieces == Pieces(version)
       IN \E i \in 1..Len(pieces) :
             LET piece == pieces[i]
             IN \/ piece = <<>>
                \/ \E k \in 1..Len(piece) : piece[k] \notin 48..57

\* C18: compare_versions fails open: if either argument is not a string, or
\* has after the leading "v"/"V" a component that is not a non-negative
\* integer, the result is 0, whatever the other argument is.
C18_MalformedComparesEqual ==
    (Compared /\ (Malformed(call.version1) \/ Malformed(call.version2))) =>
        call.result = 0

(* ---------------------------------------------------------------------- *)
(* utils.heatmap_generator                                                *)
(* A value is a number with one decimal, held as its count of tenths      *)
(* ---------------------------------------------------------------------- *)
\* the largest value1, in whole units
MaxPercent == 100

\* value1 of the calls: 0.0, 0.1, ... MaxPercent
HeatValues == 0..(10 * MaxPercent)

\* value2 of the calls: absent (as in every call of tui.py) or zero
NoValue == "None"

HeatDivisors == {NoValue, "0"}

\* the fields SystemStats.update_content classifies
HeatFields == {"%cpu", "%used", "cpu_temp"}

\* round(value): to the nearest integer, a tie to the even one
round(tenths) ==
    LET whole == tenths \div 10
        rest == tenths % 10
    IN IF rest < 5 THEN whole
       ELSE IF rest > 5 THEN whole + 1
       ELSE IF whole % 2 = 0 THEN whole ELSE whole + 1

heatmap_generator(value1, value2) ==
    IF value2 # NoValue
    THEN "Error: Division by zero"
    ELSE LET load == round(value1)
         IN IF load < 75 THEN "lime"
            ELSE IF load < 90 THEN "yellow"
            ELSE "red"

InitHeat ==
    /\ InitGlobals
    /\ pihole = "none"
    /\ tui = NoTui
    /\ call \in [fn : {"heatmap_generator"}, field : HeatFields,
                 value1 : HeatValues, value2 : HeatDivisors,
                 returned : {FALSE}, result : {""}]

\* result = heatmap_generator(value1) or heatmap_generator(value1, 0)
CallHeatmapGenerator ==
    /\ call.fn = "heatmap_generator"
    /\ ~call.returned
    /\ call' = [call EXCEPT !.returned = TRUE,
                            !.result = heatmap_generator(call.value1,
                                                         call.value2)]
    /\ UNCHANGED <<eink_vars, tui>>

NextHeat == CallHeatmapGenerator

SpecHeat == InitHeat /\ [][NextHeat]_vars

\* heatmap_generator(value1) has returned
Classified ==
    call.fn = "heatmap_generator" /\ call.returned /\ call.value2 = NoValue

(* ---------------------------------------------------------------------- *)
(* C19                                                                    *)
(* ---------------------------------------------------------------------- *)
\* C19: the classification is exact on the raw value: below 75 (74.9
\* included) nominal, from 75 up to but excluding 90 (75.0 and 89.9 included)
\* elevated, 90 or more critical, for every field.
C19_ExactOnRawValue ==
    Classified =>
        /\ call.value1 < 750 => call.result = "lime"
        /\ (call.value1 >= 750 /\ call.value1 < 900) => call.result = "yellow"
        /\ call.value1 >= 900 => call.result = "red"

(* ---------------------------------------------------------------------- *)
(* The Versions screen of the two renderers:                              *)
(* eink_display.draw_version_screen, tui.PiHoleVersions.update_content    *)
(* ---------------------------------------------------------------------- *)
\* "N/A", the default of comp_data.get(...).get("version", "N/A")
NA == Text(<<"N", "/", "A">>)

\* __version__ of the running tool: "1.0"
CurrentVersion == Text(<<"1", ".", "0">>)

\* utils.latest_padd_eink_version: None until a lookup succeeded, then the
\* latest release
LatestVersions == {None, Text(<<"1", ".", "0">>), Text(<<"1", ".", "1">>)}

\* version_data[key] of a component: missing, or its local and remote version
NoComponent == [present |-> FALSE, local |-> NA, remote |-> NA]

ComponentData ==
    {NoComponent}
    \cup [present : {TRUE},
          local : {Text(<<"1", ".", "0">>), NA},
          remote : {Text(<<"1", ".", "0">>), Text(<<"v", "1", ".", "1">>), NA}]

\* padd_data.get("version"): missing, or the three components
NoVersionData ==
    [present |-> FALSE, core |-> NoComponent, web |-> NoComponent,
     ftl |-> NoComponent]

VersionData ==
    {NoVersionData}
    \cup [present : {TRUE}, core : ComponentData, web : ComponentData,
          ftl : ComponentData]

\* the payload handed to the renderer: {} or one with its "version" entry
Payloads ==
    {[empty |-> TRUE, version |-> NoVersionData]}
    \cup [empty : {FALSE}, version : VersionData]

\* check_padd_eink_version returns a line with "**"
OwnUpdateLine(latest, current_version) ==
    /\ latest # None
    /\ compare_versions(latest, current_version) > 0

\* has_update of get_version_status(comp_data)
get_version_status(comp_data) ==
    /\ comp_data.present
    /\ comp_data.local # NA /\ comp_data.remote # NA
    /\ compare_versions(comp_data.remote, comp_data.local) > 0

\* any_updates after the loop over core, web and ftl
ComponentUpdates(version_data) ==
    \/ get_version_status(version_data.core)
    \/ get_version_status(version_data.web)
    \/ get_version_status(version_data.ftl)

\* the footer draw_version_screen draws: "none" when it returns before it
draw_version_screen(data, latest, current_version) ==
    IF data.empty \/ ~data.version.present
    THEN "none"
    ELSE IF OwnUpdateLine(latest, current_version)
            \/ ComponentUpdates(data.version)
         THEN "update available"
         ELSE "healthy"

\* the footer PiHoleVersions.update_content writes: the PADD-eInk line is
\* written with the check mark and takes no part in any_updates
update_content(data, latest, current_version) ==
    IF data.empty \/ ~data.version.present
    THEN "none"
    ELSE IF ComponentUpdates(data.version)
         THEN "update available"
         ELSE "healthy"

InitFooter ==
    /\ InitGlobals
    /\ pihole = "none"
    /\ tui = NoTui
    /\ call \in [fn : {"draw_version_screen", "update_content"},
                 data : Payloads, latest : LatestVersions,
                 returned : {FALSE}, footer : {"none"}]

\* the e-ink renderer draws the Versions screen
CallDrawVersionScreen ==
    /\ call.fn = "draw_version_screen"
    /\ ~call.returned
    /\ call' = [call EXCEPT !.returned = TRUE,
                            !.footer = draw_version_screen(call.data,
                                           call.latest, CurrentVersion)]
    /\ UNCHANGED <<eink_vars, tui>>

\* the TUI updates its Versions panel
CallUpdateContent ==
    /\ call.fn = "update_content"
    /\ ~call.returned
    /\ call' = [call EXCEPT !.returned = TRUE,
                            !.footer = update_content(call.data, call.latest,
                                                      CurrentVersion)]
    /\ UNCHANGED <<eink_vars, tui>>

NextFooter == CallDrawVersionScreen \/ CallUpdateContent

SpecFooter == InitFooter /\ [][NextFooter]_vars

\* one of the four entries has remote > local under compare_versions
AnyEntryNewer ==
    \/ compare_versions(call.latest, CurrentVersion) > 0
    \/ \E comp_data \in {call.data.version.core, call.data.version.web,
                          call.data.version.ftl} :
          comp_data.present
          /\ compare_versions(comp_data.remote, comp_data.local) > 0

(* ---------------------------------------------------------------------- *)
(* C20                                                                    *)
(* ---------------------------------------------------------------------- *)
\* C20: in both renderers the footer of the Versions screen reads "update
\* available" if and only if one of the entries (core, web, ftl and the
\* tool's own version) has remote > local; otherwise it reads healthy.
C20_FooterIsOrOverAllEntries ==
    (call.fn \in {"draw_version_screen", "update_content"} /\ call.returned
     /\ ~call.data.empty /\ call.data.version.present) =>
        call.footer = IF AnyEntryNewer THEN "update available" ELSE "healthy"

(* ---------------------------------------------------------------------- *)
(* The version checker of utils.py: _update_latest_version (run at import *)
(* and every three hours by the scheduler), check_padd_eink_version       *)
(* ---------------------------------------------------------------------- *)
\* most calls of _update_latest_version in one run
MaxRefreshes == 3

\* str(latest_version) of a lookup that returned: older ("0.9"), equal
\* ("1.0"), newer ("1.1"), and a newer post-release ("1.1.post1")
LookupResults ==
    {Text(<<"0", ".", "9">>), Text(<<"1", ".", "0">>), Text(<<"1", ".", "1">>),
     Text(<<"1", ".", "1", ".", "p", "o", "s", "t", "1">>)}

\* outcomes of lastversion.latest: a release, or an exception (no network)
LookupRaises == [type |-> "raise", chars |-> <<>>]

\* ">=" for ">"
check_padd_eink_version_ge(latest, current_version) ==
    IF latest # None /\ latest.chars # <<>>
    THEN IF compare_versions(latest, current_version) >= 0
         THEN "update_available"
         ELSE "up_to_date"
    ELSE "unknown"

\* the status check_padd_eink_version reports: "?" is unknown, "**" is
\* update_available, the check mark is up_to_date.  "if
\* latest_padd_eink_version:" is a truth test: None and "" both fail it.
check_padd_eink_version(latest, current_version) ==
    IF latest # None /\ latest.chars # <<>>
    THEN IF compare_versions(latest, current_version) > 0
         THEN "update_available"
         ELSE "up_to_date"
    ELSE "unknown"

InitChecker ==
    /\ InitGlobals
    /\ pihole = "none"
    /\ tui = NoTui
    /\ call = [fn |-> "version_checker",
               latest_padd_eink_version |-> None,
               lookups |-> <<>>,
               status |-> "unread"]

\* the except branch clears the cache
\* (a mutation of _update_latest_version)
_update_latest_version_clearing(outcome) ==
    /\ call.fn = "version_checker"
    /\ Len(call.lookups) < MaxRefreshes
    /\ call' = [call EXCEPT
                  !.lookups = Append(@, outcome),
                  !.latest_padd_eink_version =
                      IF outcome = LookupRaises THEN None ELSE outcome]
    /\ UNCHANGED <<eink_vars, tui>>

\* one run of _update_latest_version; lookups records the outcomes so far
_update_latest_version(outcome) ==
    /\ call.fn = "version_checker"
    /\ Len(call.lookups) < MaxRefreshes
    /\ call' = [call EXCEPT
                  !.lookups = Append(@, outcome),
                  !.latest_padd_eink_version =
                      IF outcome = LookupRaises THEN @ ELSE outcome]
    /\ UNCHANGED <<eink_vars, tui>>

\* a renderer reads the status
ReadStatus ==
    /\ call.fn = "version_checker"
    /\ call' = [call EXCEPT
                  !.status = check_padd_eink_version(
                                 call.latest_padd_eink_version,
                                 CurrentVersion)]
    /\ UNCHANGED <<eink_vars, tui>>

NextChecker ==
    \/ \E outcome \in LookupResults \cup {LookupRaises} :
          _update_latest_version(outcome)
    \/ ReadStatus

SpecChecker == InitChecker /\ [][NextChecker]_vars

\* the lookups that returned, in order
Successes(lookups) == SelectSeq(lookups, LAMBDA o : o # LookupRaises)

(* ---------------------------------------------------------------------- *)
(* C21                                                                    *)
(* ---------------------------------------------------------------------- *)
\* C21: after any sequence of refreshes the cached latest version is the
\* result of the most recent successful one, or empty if none succeeded: a
\* failed check leaves the cache untouched.
C21_CacheIsLastSuccess ==
    call.fn = "version_checker" =>
        call.latest_padd_eink_version =
            IF Successes(call.lookups) = <<>>
            THEN None
            ELSE Successes(call.lookups)[Len(Successes(call.lookups))]

\* a lookup succeeded and the one after it failed
C21_Witness ==
    /\ call.fn = "version_checker"
    /\ Len(call.lookups) >= 2
    /\ call.lookups[Len(call.lookups)] = LookupRaises
    /\ call.lookups[Len(call.lookups) - 1] # LookupRaises
    /\ call.latest_padd_eink_version = call.lookups[Len(call.lookups) - 1]

(* ---------------------------------------------------------------------- *)
(* C22                                                                    *)
(* ---------------------------------------------------------------------- *)
\* C22: the tool's own version status is "unknown" if and only if no lookup
\* has ever succeeded; once one has, it is update_available exactly when the
\* cached release, the one of the last successful lookup, is newer than the
\* running version (compare_versions(cached latest, current) > 0) and
\* up_to_date otherwise; reading the status never changes the cache.
C22_StatusFollowsCache ==
    [][(call'.status # call.status \/ ReadStatus) =>
          LET returned == Successes(call.lookups)
              a == Numbers(returned[Len(returned)])
              b == Numbers(CurrentVersion)
          IN /\ call'.status = "unknown" <=> returned = <<>>
             /\ returned # <<>> =>
                   /\ call.latest_padd_eink_version
                         = returned[Len(returned)]
                   /\ call'.status \in {"update_available", "up_to_date"}
                   /\ call'.status = "update_available"
                         <=> compare_versions(returned[Len(returned)],
                                              CurrentVersion) > 0
                   /\ WellFormed(returned[Len(returned)]) =>
                         (call'.status = "update_available"
                            <=> \E i \in 1..Max(Len(a), Len(b)) :
                                   DecidedAt(a, b, i, 1))
             /\ call'.latest_padd_eink_version = call.latest_padd_eink_version
             /\ call'.lookups = call.lookups]_vars

\* a newer release is cached, the last lookup failed, the status was read
C22_Witness ==
    /\ call.fn = "version_checker"
    /\ call.status = "update_available"
    /\ call.lookups # <<>>
    /\ call.lookups[Len(call.lookups)] = LookupRaises

(* ---------------------------------------------------------------------- *)
(* The screens of the two renderers on incomplete payloads                *)
(* ---------------------------------------------------------------------- *)
\* the nested entries of the payload a screen reads
PayloadFields == {"queries", "system.cpu.load", "system.cpu.%cpu",
                  "system.memory", "sensors", "version"}

\* a payload: {} ("empty"), {"error": message}, or one in which the entries
\* of present exist (well typed) and the others are missing
Snapshot(kind, present) == [kind |-> kind, present |-> present]

RenderInputs ==
    {Snapshot("empty", {}), Snapshot("error", {})}
    \cup {Snapshot("data", present) : present \in SUBSET PayloadFields}

\* the screens: three of eink_display.py, three widgets of tui.py
RenderFunctions == {"draw_pihole_stats_screen", "draw_system_info_screen",
                    "draw_version_screen", "PiHoleStats.update_content",
                    "SystemStats.update_content",
                    "PiHoleVersions.update_content"}

\* "if not data" of the e-ink screens: only {} is falsy, every .get has a
\* default of the type the formatting needs
EinkScreen(data) ==
    IF data.kind = "empty" THEN "placeholder" ELSE "drawn"

\* draw_version_screen: the PADD-eInk line, then the placeholder unless the
\* payload has its version entry
EinkVersionScreen(data) ==
    IF "version" \notin data.present THEN "placeholder" ELSE "drawn"

\* PiHoleStats.update_content
TuiStats(data) ==
    IF data.kind = "error" THEN "error_text"
    ELSE IF data.kind = "empty" THEN "placeholder"
    ELSE "drawn"

\* SystemStats.update_content: the default of "%cpu" is the list [0.0], which
\* generate_ascii_bar divides by 100; the default of load "raw" is [0.0],
\* which is indexed with 1 and 2
TuiSystem(data) ==
    IF data.kind \in {"empty", "error"} THEN "cleared"
    ELSE IF "system.cpu.%cpu" \notin data.present THEN "TypeError"
    ELSE IF "system.cpu.load" \notin data.present THEN "IndexError"
    ELSE "drawn"

\* PiHoleVersions.update_content
TuiVersions(data) ==
    IF data.kind \in {"empty", "error"} THEN "cleared"
    ELSE IF "version" \notin data.present THEN "placeholder"
    ELSE "drawn"

RenderOutcome(fn, data) ==
    CASE fn = "draw_pihole_stats_screen" -> EinkScreen(data)
      [] fn = "draw_system_info_screen" -> EinkScreen(data)
      [] fn = "draw_version_screen" -> EinkVersionScreen(data)
      [] fn = "PiHoleStats.update_content" -> TuiStats(data)
      [] fn = "SystemStats.update_content" -> TuiSystem(data)
      [] fn = "PiHoleVersions.update_content" -> TuiVersions(data)

InitRender ==
    /\ InitGlobals
    /\ pihole = "none"
    /\ tui = NoTui
    /\ call \in [fn : RenderFunctions, data : RenderInputs,
                 returned : {FALSE}, outcome : {"pending"}]

\* one screen function runs on the payload
CallScreen ==
    /\ call.fn \in RenderFunctions
    /\ ~call.returned
    /\ call' = [call EXCEPT !.returned = TRUE,
                            !.outcome = RenderOutcome(call.fn, call.data)]
    /\ UNCHANGED <<eink_vars, tui>>

NextRender == CallScreen

SpecRender == InitRender /\ [][NextRender]_vars

(* ---------------------------------------------------------------------- *)
(* C23                                                                    *)
(* ---------------------------------------------------------------------- *)
\* C23: rendering never raises on incomplete data: for an empty payload, an
\* error payload or one with any subset of its nested entries missing, every
\* screen of both renderers gives its placeholder or default output.
C23_RenderingNeverRaises ==
    (call.fn \in RenderFunctions /\ call.returned) =>
        call.outcome \notin {"TypeError", "IndexError"}

(* ---------------------------------------------------------------------- *)
(* C25                                                                    *)
(* ---------------------------------------------------------------------- *)
\* pihole.get_padd_summary is called on the main thread, inside the render
FetchOnRenderTick ==
    /\ RenderStart
    /\ pc' = "fetch"

\* pihole_client_creator is called on the callback thread of the button
ConnectInCallback ==
    /\ handle_refresh_press_store
    /\ connecting'

\* C25: the blocking network call (stats fetch or client connection) is
\* never executed in the render tick of the control loop nor inside an
\* input callback, only by a separate worker.
C25_NetworkOnlyInWorker ==
    [][~FetchOnRenderTick /\ ~ConnectInCallback]_vars

(* ---------------------------------------------------------------------- *)
(* C26                                                                    *)
(* ---------------------------------------------------------------------- *)
\* the panel shows what the screen state asks for
Reflects ==
    IF connection_failed_at_boot THEN displayed.kind = "failed"
    ELSE IF qrcode_mode_active THEN displayed.kind = "qr"
    ELSE displayed.kind = "screen" /\ displayed.index = current_screen_index

\* C26: no redraw request is lost: the clearing of the dirty flag at the end
\* of a render never erases a request made during that render, so whenever
\* the flag is cleared the panel reflects the screen state.
C26_AckErasesNoRequest ==
    [][AckDrawn => Reflects']_vars

(* ---------------------------------------------------------------------- *)
(* C27                                                                    *)
(* ---------------------------------------------------------------------- *)
\* C27: whenever the panel shows the connection-failed screen, a refresh
\* press calls the client creator (whose success leaves the
\* connection-failed state), also after a long press toggled the QR mode
\* under that screen.
C27_RefreshExitsFailed ==
    /\ (ButtonsBound /\ ~refresh_pending /\ ~connecting
          /\ connection_failed_at_boot /\ displayed.kind = "failed")
         => ~ENABLED (handle_refresh_press /\ ~refresh_pending')
    /\ (refresh_pending /\ connection_failed_at_boot)
         => ~ENABLED (handle_refresh_press_store /\ ~connecting')

(* ---------------------------------------------------------------------- *)
(* C28                                                                    *)
(* ---------------------------------------------------------------------- *)
\* the QR overlay was dismissed and the render after it has not happened
QrDismissed == displayed.kind = "qr" /\ ~qrcode_mode_active

\* C28: the first screen rendered after the QR overlay is dismissed is the
\* one that was active when it was opened: between the dismissing toggle and
\* that render the control loop does not rotate, however long the overlay
\* was shown.
C28_NoRotationAfterDismiss ==
    [][(QrDismissed /\ LoopStep)
          => current_screen_index' = current_screen_index]_vars

(* ---------------------------------------------------------------------- *)
(* C29                                                                    *)
(* ---------------------------------------------------------------------- *)
\* the main thread is in the initial connection attempts
InBootLoop(at) == at \in {"boot", "boot_fetch", "boot_check", "boot_sleep"}

\* C29: the connection-failed state is entered only at boot and only after
\* three consecutive failed attempts: a pass is counted only when its fetch
\* was made and failed, the state is entered with three passes counted and
\* no data; a successful boot attempt ends the attempts without entering it;
\* after boot it is never entered, so once left by a reconnect it stays left.
C29_FailedOnlyAfterThreeBootFailures ==
    [][/\ (~connection_failed_at_boot /\ connection_failed_at_boot')
            => /\ BootFinish
               /\ pc = "boot"
               /\ boot_i = 3
               /\ padd_data = EmptyData
       /\ (InBootLoop(pc) /\ pc' # pc /\ padd_data # EmptyData)
            => /\ pc' \in {"boot_clear", "finally"}
               /\ ~connection_failed_at_boot'
       /\ boot_i' # boot_i
            => /\ pc = "boot_sleep"
               /\ boot_i' = boot_i + 1
               /\ padd_data = EmptyData
       /\ (pc' = "boot_sleep" /\ pc # "boot_sleep")
            => (pc = "boot_check" /\ padd_data = EmptyData)
       /\ (pc' = "boot_check" /\ pc # "boot_check")
            => /\ pc = "boot_fetch"
               /\ \E o \in FetchOutcomes : get_padd_summary(o)
       /\ (pc' = "boot_fetch" /\ pc # "boot_fetch")
            => (pc = "boot" /\ boot_i < 3)
       /\ ~InBootLoop(pc)
            => /\ ~InBootLoop(pc')
               /\ connection_failed_at_boot' => connection_failed_at_boot
      ]_vars

\* the failed state was left by a reconnect and a later fetch failed
C29_Witness ==
    /\ boot_i = 3
    /\ ~connection_failed_at_boot
    /\ pihole = "client"
    /\ padd_data = EmptyData
    /\ displayed.kind = "screen"
    /\ pc = "sleep"

(* ---------------------------------------------------------------------- *)
(* tui.PADD_TUI: the timer, the "r" key and the update_data workers       *)
(* ---------------------------------------------------------------------- *)
\* most update_data workers started in one run
MaxWorkers == 3

\* what get_padd_summary hands to a worker: a complete payload, one without
\* system.cpu."%cpu" (SystemStats.update_content raises on it), an exception
TuiFetchOutcomes == {"full", "partial", "raise"}

\* a widget shows text, produced by worker from (0: by no worker)
Shown(text, from) == [text |-> text, from |-> from]

\* a worker thread at the start of update_data
NewWorker == [pc |-> "fetch", payload |-> "none", cancelled |-> FALSE]

\* compose and on_mount: "Loading..." in the two Static widgets and in the
\* version text, the session of the client open, the first worker started
InitTui ==
    /\ InitGlobals
    /\ pihole = "client"
    /\ call = NoCall
    /\ tui = [mounted |-> TRUE,
              closed |-> FALSE,
              workers |-> <<NewWorker>>,
              stats |-> Shown("Loading...", 0),
              system |-> Shown("Loading...", 0),
              versions |-> Shown("Loading...", 0)]

\* @work(thread=True, exclusive=True): the workers still running are
\* cancelled, which marks them and does not stop their threads; a new thread
\* enters update_data
StartWorker(workers) ==
    Append([i \in 1..Len(workers) |->
                IF workers[i].pc = "done" THEN workers[i]
                ELSE [workers[i] EXCEPT !.cancelled = TRUE]],
           NewWorker)

\* set_interval(TUI_REFRESH_INTERVAL, run_update_worker)
\* (self.countdown, which only feeds the progress bar, is left out)
run_update_worker ==
    /\ tui.mounted
    /\ Len(tui.workers) < MaxWorkers
    /\ tui' = [tui EXCEPT !.workers = StartWorker(@)]
    /\ UNCHANGED <<eink_vars, call>>

\* the "r" key: "Refreshing..." in the three widgets, then run_update_worker
action_refresh ==
    /\ tui.mounted
    /\ Len(tui.workers) < MaxWorkers
    /\ tui' = [tui EXCEPT !.workers = StartWorker(@),
                          !.stats = Shown("Refreshing...", 0),
                          !.system = Shown("Refreshing...", 0),
                          !.versions = Shown("Refreshing...", 0)]
    /\ UNCHANGED <<eink_vars, call>>

\* padd_data = self.pihole.get_padd_summary(full=True) returns or raises.
\* The call runs on the thread of the worker: it ends whether or not the
\* worker was cancelled and whether or not the app has stopped meanwhile
WorkerFetch(i, outcome) ==
    /\ i \in 1..Len(tui.workers)
    /\ tui.workers[i].pc = "fetch"
    /\ tui' = [tui EXCEPT !.workers[i].payload = outcome,
                          !.workers[i].pc =
                              IF outcome = "raise" THEN "error" ELSE "stats"]
    /\ UNCHANGED <<eink_vars, call>>

\* call_from_thread(PiHoleStats.update_content, padd_data)
WorkerUpdateStats(i) ==
    /\ tui.mounted
    /\ i \in 1..Len(tui.workers)
    /\ tui.workers[i].pc = "stats"
    /\ tui' = [tui EXCEPT !.stats = Shown("data", i),
                          !.workers[i].pc = "system"]
    /\ UNCHANGED <<eink_vars, call>>

\* call_from_thread(SystemStats.update_content, padd_data): its exception is
\* raised in the worker, inside the try
WorkerUpdateSystem(i) ==
    /\ tui.mounted
    /\ i \in 1..Len(tui.workers)
    /\ tui.workers[i].pc = "system"
    /\ IF tui.workers[i].payload = "partial"
       THEN tui' = [tui EXCEPT !.workers[i].pc = "error"]
       ELSE tui' = [tui EXCEPT !.system = Shown("data", i),
                               !.workers[i].pc = "versions"]
    /\ UNCHANGED <<eink_vars, call>>

\* call_from_thread(PiHoleVersions.update_content, padd_data)
WorkerUpdateVersions(i) ==
    /\ tui.mounted
    /\ i \in 1..Len(tui.workers)
    /\ tui.workers[i].pc = "versions"
    /\ tui' = [tui EXCEPT !.versions = Shown("data", i),
                          !.workers[i].pc = "done"]
    /\ UNCHANGED <<eink_vars, call>>

\* except Exception: call_from_thread(PiHoleStats.update_content,
\* {"error": error_message}), and nothing for the other two widgets
WorkerReportError(i) ==
    /\ tui.mounted
    /\ i \in 1..Len(tui.workers)
    /\ tui.workers[i].pc = "error"
    /\ tui' = [tui EXCEPT !.stats = Shown("error", i),
                          !.workers[i].pc = "done"]
    /\ UNCHANGED <<eink_vars, call>>

\* a step of an update_data worker
update_data ==
    \E i \in 1..MaxWorkers :
        \/ \E outcome \in TuiFetchOutcomes : WorkerFetch(i, outcome)
        \/ WorkerUpdateStats(i)
        \/ WorkerUpdateSystem(i)
        \/ WorkerUpdateVersions(i)
        \/ WorkerReportError(i)

\* the "q" key: self.pihole.close_session(), which returns or raises (the
\* logout request fails), and self.exit().  If
\* close_session raises, self.exit() is not reached and the session is not
\* recorded as closed; the exception leaves the handler and ends the app.
\* Either way the app stops: no key or timer is handled and no widget is
\* updated from then on.  The threads of the workers are not stopped: a
\* worker inside get_padd_summary finishes its fetch, and its
\* call_from_thread then finds no running app.
action_quit(outcome) ==
    /\ tui.mounted
    /\ tui' = [tui EXCEPT !.mounted = FALSE,
                          !.closed = (outcome = "closed")]
    /\ UNCHANGED <<eink_vars, call>>

NextTui ==
    \/ run_update_worker
    \/ action_refresh
    \/ update_data
    \/ \E outcome \in {"closed", "raise"} : action_quit(outcome)

SpecTui == InitTui /\ [][NextTui]_vars

\* the workers inside get_padd_summary
InFlight == {i \in 1..Len(tui.workers) : tui.workers[i].pc = "fetch"}

\* every worker has finished
Quiet == \A i \in 1..Len(tui.workers) : tui.workers[i].pc = "done"

(* ---------------------------------------------------------------------- *)
(* C24                                                                    *)
(* ---------------------------------------------------------------------- *)
\* C24: no fetch in flight is ever cancelled and fetches do not overlap: a
\* refresh request arriving during a fetch neither cancels it nor starts a
\* second one, and the widgets keep the previous result until the new one
\* lands.
C24_NoCancelNoOverlap ==
    tui.mounted =>
        /\ Cardinality(InFlight) <= 1
        /\ \A i \in InFlight : ~tui.workers[i].cancelled
        /\ InFlight # {} =>
              "Refreshing..." \notin {tui.stats.text, tui.system.text,
                                      tui.versions.text}

(* ---------------------------------------------------------------------- *)
(* C30                                                                    *)
(* ---------------------------------------------------------------------- *)
\* C30: in the terminal UI, once a fetch has completed and no other is
\* pending, the three widgets show content derived from that same fetch
\* outcome: none shows "Refreshing...", none shows older data next to a
\* newer result or an error.
C30_WidgetsAgreeWhenQuiet ==
    (tui.mounted /\ Quiet) =>
        /\ tui.stats.from = tui.system.from
        /\ tui.system.from = tui.versions.from
        /\ tui.stats.from # 0
        /\ "Refreshing..." \notin {tui.stats.text, tui.system.text,
                                   tui.versions.text}

=============================================================================
